---- MODULE Spec2Model ----
(***************************************************************************)
(* A model of the gravitation code of pygame-study:                        *)
(*   src/gravsim_pygame.py  SpaceObject, GravitationalField,               *)
(*                          SpaceObjectRenderer (add / accel / update)     *)
(*   src/gravity01.py       SpaceObject, distance, grav_force, main        *)
(*                                                                         *)
(* Numbers.  The code computes in IEEE binary floating point (numpy        *)
(* float64, and float32 for the positions of gravity01.py).  The model     *)
(* computes in decimal floating point with Digits significant digits and   *)
(* round-to-nearest-even after every single operation, so that rounding,   *)
(* absorption (x + y = x for a small y), 0/0 = nan and x/0 = inf are those *)
(* of the code's arithmetic at a reduced precision.  The exponent is not   *)
(* bounded: no run of the model comes near the range of a float64.  The    *)
(* sign of a zero is not kept.                                             *)
(***************************************************************************)
EXTENDS Integers, Sequences, FiniteSets, TLC

\* Significant decimal digits a float of the model carries.
Digits == 3
\* Length the body collections may reach.
MaxBodies == 2
\* Calls of update() in one run.
MaxSteps == 2

(***************************************************************************)
(* Floating point                                                          *)
(***************************************************************************)
\* 10^n for n in 0..9, the powers an Int of the checker holds.
Pow10(n) ==
    <<1, 10, 100, 1000, 10000, 100000, 1000000, 10000000, 100000000,
      1000000000>>[n + 1]

Abs(x) == IF x < 0 THEN -x ELSE x

Sign(x) == IF x < 0 THEN -1 ELSE IF x > 0 THEN 1 ELSE 0

Min(x, y) == IF x <= y THEN x ELSE y

\* The number of decimal digits of a >= 0.
NumDigits(a) ==
    IF a < 10000
    THEN (IF a < 10 THEN 1 ELSE IF a < 100 THEN 2 ELSE IF a < 1000 THEN 3 ELSE 4)
    ELSE IF a < 100000000
    THEN (IF a < 100000 THEN 5 ELSE IF a < 1000000 THEN 6
          ELSE IF a < 10000000 THEN 7 ELSE 8)
    ELSE IF a < 1000000000 THEN 9 ELSE 10

\* A finite float m * 10^e, a nan, an infinity of sign s.
Fin(m, e) == [k |-> "fin", m |-> m, e |-> e]

NaN == [k |-> "nan", m |-> 0, e |-> 0]

Inf(s) == [k |-> "inf", m |-> s, e |-> 0]

FZero == Fin(0, 0)

IsNaN(x) == x.k = "nan"

IsInf(x) == x.k = "inf"

IsFinite(x) == x.k = "fin"

\* The one representation of m * 10^e: no trailing zero in m, zero is 0 * 10^0.
RECURSIVE Canon(_, _)
Canon(m, e) ==
    IF m = 0 THEN Fin(0, 0)
    ELSE IF m % 10 = 0 THEN Canon(m \div 10, e + 1)
    ELSE Fin(m, e)

\* s * (a + t) * 10^e rounded to d digits, to nearest, ties to even; a >= 0,
\* and sticky says that a positive t < 1 was cut off a.
Round(d, s, a, e, sticky) ==
    LET nd == NumDigits(a)
    IN  IF nd <= d
        THEN Canon(s * a, e)
        ELSE LET cut == nd - d
                 p == Pow10(cut)
                 q == a \div p
                 r == a % p
                 up == \/ 2 * r > p
                       \/ 2 * r = p /\ (sticky \/ q % 2 = 1)
             IN  Canon(s * (IF up THEN q + 1 ELSE q), e + cut)

\* The float64 nearest to the decimal literal m * 10^e.
Lit(m, e) == Round(Digits, Sign(m), Abs(m), e, FALSE)

\* The decimal exponent of the leading digit of a finite non-zero x.
Lead(x) == x.e + NumDigits(Abs(x.m)) - 1

FNeg(x) == IF x.k = "nan" THEN NaN ELSE [x EXCEPT !.m = -x.m]

\* x * y in a format of d digits.
MulAt(d, x, y) ==
    IF IsNaN(x) \/ IsNaN(y) THEN NaN
    ELSE IF IsInf(x) \/ IsInf(y)
         THEN IF x.m = 0 \/ y.m = 0 THEN NaN ELSE Inf(Sign(x.m) * Sign(y.m))
    ELSE Round(d, Sign(x.m) * Sign(y.m), Abs(x.m) * Abs(y.m), x.e + y.e, FALSE)

\* x + y in a format of d digits.
AddAt(d, x, y) ==
    IF IsNaN(x) \/ IsNaN(y) THEN NaN
    ELSE IF IsInf(x) /\ IsInf(y) THEN (IF x.m = y.m THEN x ELSE NaN)
    ELSE IF IsInf(x) THEN x
    ELSE IF IsInf(y) THEN y
    ELSE IF x.m = 0 THEN y
    ELSE IF y.m = 0 THEN x
    \* y is below a twentieth of the last place of x: the sum rounds to x.
    ELSE IF Lead(x) - Lead(y) >= d + 2 THEN x
    ELSE IF Lead(y) - Lead(x) >= d + 2 THEN y
    ELSE LET e == Min(x.e, y.e)
             sum == x.m * Pow10(x.e - e) + y.m * Pow10(y.e - e)
         IN  Round(d, Sign(sum), Abs(sum), e, FALSE)

\* x / y in a format of d digits.
DivAt(d, x, y) ==
    IF IsNaN(x) \/ IsNaN(y) THEN NaN
    ELSE IF IsInf(x) THEN (IF IsInf(y) THEN NaN
                            ELSE Inf(x.m * (IF y.m < 0 THEN -1 ELSE 1)))
    ELSE IF IsInf(y) THEN FZero
    ELSE IF y.m = 0 THEN (IF x.m = 0 THEN NaN ELSE Inf(Sign(x.m)))
    ELSE IF x.m = 0 THEN FZero
    ELSE LET pad == Digits - NumDigits(Abs(x.m))
             num == Abs(x.m) * Pow10(pad + Digits + 1)
             den == Abs(y.m)
         IN  Round(d, Sign(x.m) * Sign(y.m), num \div den,
                   x.e - pad - (Digits + 1) - y.e, num % den # 0)

\* float64 arithmetic
FMul(x, y) == MulAt(Digits, x, y)

FAdd(x, y) == AddAt(Digits, x, y)

FSub(x, y) == FAdd(x, FNeg(y))

FDiv(x, y) == DivAt(Digits, x, y)

\* The largest r with r * r <= n, for lo * lo <= n < hi * hi.
RECURSIVE ISqrt(_, _, _)
ISqrt(n, lo, hi) ==
    IF hi - lo <= 1 THEN lo
    ELSE LET mid == (lo + hi) \div 2
         IN  IF mid * mid <= n THEN ISqrt(n, mid, hi) ELSE ISqrt(n, lo, mid)

FSqrt(x) ==
    IF IsNaN(x) THEN NaN
    ELSE IF IsInf(x) THEN (IF x.m > 0 THEN x ELSE NaN)
    ELSE IF x.m < 0 THEN NaN
    ELSE IF x.m = 0 THEN FZero
    ELSE LET nd == NumDigits(x.m)
             \* 2 * Digits - 1 or 2 * Digits digits, and an even exponent left
             s0 == 2 * Digits - nd
             s == IF (x.e - s0) % 2 = 0 THEN s0 ELSE s0 - 1
             n == x.m * Pow10(s)
             r == ISqrt(n, 0, Pow10(Digits))
             up == n > r * r + r
         IN  Canon(IF up THEN r + 1 ELSE r, (x.e - s) \div 2)

\* x > y as the code's comparison gives it: false when either is a nan.
FGt(x, y) ==
    IF IsNaN(x) \/ IsNaN(y) THEN FALSE
    ELSE IF x = y THEN FALSE
    ELSE LET d == FSub(x, y) IN d.m > 0

\* x <= y, false when either is a nan.
FLe(x, y) == ~IsNaN(x) /\ ~IsNaN(y) /\ ~FGt(x, y)

FAbs(x) == IF x.k = "nan" THEN NaN ELSE [x EXCEPT !.m = Abs(x.m)]

(***************************************************************************)
(* numpy: 3-vectors, element-wise                                          *)
(***************************************************************************)
Vec(x, y, z) == <<x, y, z>>

\* np.array([0, 0, 0]) and np.array([0.0, 0.0, 0.0])
ZeroVec == Vec(FZero, FZero, FZero)

np_add(u, v) == <<FAdd(u[1], v[1]), FAdd(u[2], v[2]), FAdd(u[3], v[3])>>

np_subtract(u, v) == <<FSub(u[1], v[1]), FSub(u[2], v[2]), FSub(u[3], v[3])>>

\* np.multiply(u, s), u * s for a scalar s
np_multiply(u, s) == <<FMul(u[1], s), FMul(u[2], s), FMul(u[3], s)>>

\* u / s for a scalar s
np_divide(u, s) == <<FDiv(u[1], s), FDiv(u[2], s), FDiv(u[3], s)>>

np_inner(u, v) == FAdd(FAdd(FMul(u[1], v[1]), FMul(u[2], v[2])), FMul(u[3], v[3]))

np_linalg_norm(v) == FSqrt(np_inner(v, v))

VecFinite(v) == \A c \in 1..3 : IsFinite(v[c])

(***************************************************************************)
(* src/gravsim_pygame.py                                                   *)
(***************************************************************************)
GRAV_CONST == Lit(1, -23)

MASS_SUN == Lit(1981, 27)

MASS_EARTH == Lit(5972, 21)

delta_t == Lit(1, -1)

epsilon == Lit(1, -5)

\* SpaceObject.__init__; radius and color are read by the sprites only.
SpaceObject(obj_name, obj_mass) ==
    [name |-> obj_name, mass |-> obj_mass,
     position |-> ZeroVec, velocity |-> ZeroVec]

\* The two SpaceObjectRenderer instances of a run; __init__ sets no attribute.
Renderers == {1, 2}

\* What the caller passes to SpaceObject(...) and assigns to the new object:
\* main's sun (mass MASS_SUN / 1e5, at the origin), bodies of the mass of main's
\* moon at main's place of the earth (moving, moving slowly, at rest), and a
\* body of mass zero 5e-6 m from the origin.  Names repeat.
AtOrigin == ZeroVec

AtEarth == Vec(FZero, Lit(100, 0), FZero)

NearOrigin == Vec(Lit(3, -6), Lit(4, -6), FZero)

Catalogue ==
    {[name |-> "Sun", mass |-> FDiv(MASS_SUN, Lit(1, 5)),
      position |-> AtOrigin, velocity |-> ZeroVec],
     [name |-> "Earth", mass |-> Lit(1, 5),
      position |-> AtEarth, velocity |-> Vec(Lit(15, -1), FZero, FZero)],
     [name |-> "Earth", mass |-> Lit(1, 5),
      position |-> AtEarth, velocity |-> Vec(FZero, Lit(1, -2), FZero)],
     [name |-> "Moon", mass |-> Lit(1, 5),
      position |-> AtEarth, velocity |-> ZeroVec],
     [name |-> "Moon", mass |-> FZero,
      position |-> NearOrigin, velocity |-> ZeroVec]}

VARIABLES
    objs,              \* the SpaceObject instances, by identity 1, 2, ...
    space_objects,     \* SpaceObjectRenderer.space_objects (class attribute)
    gf_space_objects,  \* GravitationalField.space_objects (class attribute)
    a,                 \* what accel() returned, when the last operation called it
    ev,                \* the pairs that accel() evaluated: places k, j and index i
    last,              \* the last operation
    steps,             \* calls of update() so far
    g_spaceship,       \* gravity01.py main: spaceship
    g_sun,             \* gravity01.py main: sun
    g_fg,              \* gravity01.py main: what grav_force returned
    g_pc               \* gravity01.py main: "start" or "done"

sim_vars == <<objs, space_objects, gf_space_objects, a, ev, last, steps>>

g_vars == <<g_spaceship, g_sun, g_fg, g_pc>>

vars == <<objs, space_objects, gf_space_objects, a, ev, last, steps,
          g_spaceship, g_sun, g_fg, g_pc>>

\* self.space_objects of renderer r: no instance attribute, so the class's list.
renderer_space_objects(r) == space_objects

\* self.grav_field.space_objects of renderer r: the one class-level field's list.
field_space_objects(r) == gf_space_objects

\* list.index(obj): the first place holding the same object (no __eq__: identity).
index(list, obj) == CHOOSE i \in 1..Len(list) :
    list[i] = obj /\ \A j \in 1..(i - 1) : list[j] # obj

distance(so1, so2) == np_linalg_norm(np_subtract(so2.position, so1.position))

direction(so1, so2) ==
    LET v == np_subtract(so2.position, so1.position)
    IN  np_divide(v, np_linalg_norm(v))

grav_force(so1, so2) ==
    LET d == np_subtract(so2.position, so1.position)
    IN  FDiv(FMul(FMul(GRAV_CONST, so1.mass), so2.mass), np_inner(d, d))

\* The guard with the floor forgotten: distance > 0.
interacts_without_floor(so1, so2) == FGt(distance(so1, so2), FZero)

\* The guard as distance >= 0, which no pair fails.
interacts_ge_zero(so1, so2) == FLe(FZero, distance(so1, so2))

\* The guard of accel's inner loop.
interacts(so1, so2) == FGt(distance(so1, so2), epsilon)

\* The term accel adds for so2 to the acceleration of so1.
contribution(so1, so2) ==
    np_divide(np_multiply(direction(so1, so2), grav_force(so1, so2)), so1.mass)

\* What contribution(so1, so2) divides by: in direction, in grav_force, and so1.mass.
divisors(so1, so2) ==
    LET d == np_subtract(so2.position, so1.position)
    IN  [norm |-> np_linalg_norm(d), dsq |-> np_inner(d, d), mass |-> so1.mass]

\* accel's inner loop from so2 = list[j] on, for so1 = list[k].
RECURSIVE accel_inner(_, _, _, _, _)
accel_inner(os, list, st, k, j) ==
    IF j > Len(list) THEN st
    ELSE LET so1 == os[list[k]]
             so2 == os[list[j]]
         IN  IF interacts(so1, so2)
             THEN LET i == index(list, list[k])
                  IN  accel_inner(os, list,
                          [acc |-> [st.acc EXCEPT
                                       ![i] = np_add(@, contribution(so1, so2))],
                           ev |-> st.ev \cup {[k |-> k, j |-> j, i |-> i]}],
                          k, j + 1)
             ELSE accel_inner(os, list, st, k, j + 1)

\* accel's outer loop from so1 = list[k] on.
RECURSIVE accel_outer(_, _, _, _)
accel_outer(os, list, st, k) ==
    IF k > Len(list) THEN st
    ELSE accel_outer(os, list,
             accel_inner(os, list,
                 [st EXCEPT !.acc = Append(@, ZeroVec)], k, 1),
             k + 1)

\* GravitationalField.accel: the list it returns, and what it evaluated.
accel(os, list) == accel_outer(os, list, [acc |-> <<>>, ev |-> {}], 1)

\* The loop body without its second assignment: the position is left alone.
euler_step_velocity_only(so, ai) ==
    [so EXCEPT !.velocity = np_add(so.velocity, np_multiply(ai, delta_t))]

\* The body of update's loop for one so and its a[i].
euler_step(so, ai) ==
    LET v == np_add(so.velocity, np_multiply(ai, delta_t))
        p == np_add(so.position, np_multiply(v, delta_t))
    IN  [so EXCEPT !.velocity = v, !.position = p]

\* The loop with accel() called again for every so, on the objects as the
\* loop has left them so far.
RECURSIVE update_loop_recomputing(_, _, _, _)
update_loop_recomputing(os, list, acc, k) ==
    IF k > Len(list) THEN os
    ELSE LET i == index(list, list[k])
             now == accel(os, list).acc
         IN  update_loop_recomputing([os EXCEPT ![list[k]] = euler_step(@, now[i])],
                                     list, acc, k + 1)

\* update's loop from so = list[k] on; acc is the a computed before the loop.
RECURSIVE update_loop(_, _, _, _)
update_loop(os, list, acc, k) ==
    IF k > Len(list) THEN os
    ELSE LET i == index(list, list[k])
         IN  update_loop([os EXCEPT ![list[k]] = euler_step(@, acc[i])],
                         list, acc, k + 1)

Init ==
    /\ objs = <<>>
    /\ space_objects = <<>>
    /\ gf_space_objects = <<>>
    /\ a = <<>>
    /\ ev = {}
    /\ last = [op |-> "init", inst |-> 0, obj |-> 0]
    /\ steps = 0
    /\ g_spaceship = [name |-> "", mass |-> FZero, position |-> ZeroVec]
    /\ g_sun = [name |-> "", mass |-> FZero, position |-> ZeroVec]
    /\ g_fg = FZero
    /\ g_pc = "off"

\* sun = SpaceObject(n, m); sun.position = p; sun.velocity = v; renderer.add(sun)
\* as main does: SpaceObjectRenderer.add, with the GravitationalField.add it
\* calls, of a new object.
AddNew(r, n, m, p, v) ==
    /\ Len(space_objects) < MaxBodies
    /\ objs' = Append(objs, [SpaceObject(n, m) EXCEPT !.position = p, !.velocity = v])
    /\ space_objects' = Append(renderer_space_objects(r), Len(objs) + 1)
    /\ gf_space_objects' = Append(field_space_objects(r), Len(objs) + 1)
    /\ last' = [op |-> "add", inst |-> r, obj |-> Len(objs) + 1]
    /\ a' = <<>>
    /\ ev' = {}
    /\ UNCHANGED steps
    /\ UNCHANGED g_vars

\* renderer.add(o) of an object o constructed, and added, before.
AddAgain(r, o) ==
    /\ Len(space_objects) < MaxBodies
    /\ space_objects' = Append(renderer_space_objects(r), o)
    /\ gf_space_objects' = Append(field_space_objects(r), o)
    /\ last' = [op |-> "add", inst |-> r, obj |-> o]
    /\ a' = <<>>
    /\ ev' = {}
    /\ UNCHANGED <<objs, steps>>
    /\ UNCHANGED g_vars

\* GravitationalField.accel on SpaceObjectRenderer.grav_field, the one field.
Accel ==
    /\ LET res == accel(objs, gf_space_objects)
       IN  a' = res.acc /\ ev' = res.ev
    /\ last' = [op |-> "accel", inst |-> 0, obj |-> 0]
    /\ UNCHANGED <<objs, space_objects, gf_space_objects, steps>>
    /\ UNCHANGED g_vars

\* SpaceObjectRenderer.update
Update(r) ==
    /\ steps < MaxSteps
    /\ LET res == accel(objs, field_space_objects(r))
       IN  /\ a' = res.acc
           /\ ev' = res.ev
           /\ objs' = update_loop(objs, renderer_space_objects(r), res.acc, 1)
    /\ steps' = steps + 1
    /\ last' = [op |-> "update", inst |-> r, obj |-> 0]
    /\ UNCHANGED <<space_objects, gf_space_objects>>
    /\ UNCHANGED g_vars

Next ==
    \/ \E r \in Renderers, c \in Catalogue :
           AddNew(r, c.name, c.mass, c.position, c.velocity)
    \/ \E r \in Renderers, o \in 1..Len(objs) : AddAgain(r, o)
    \/ Accel
    \/ \E r \in Renderers : Update(r)

Spec == Init /\ [][Next]_vars

(***************************************************************************)
(* src/gravity01.py                                                        *)
(***************************************************************************)
\* Significant digits of a float32 of the model: fewer than a float64's.
Digits32 == Digits - 1

\* np.float32(x) of a float64 x
np_float32(x) ==
    IF IsFinite(x) THEN Round(Digits32, Sign(x.m), Abs(x.m), x.e, FALSE) ELSE x

grav_const == Lit(667430, -16)

\* SpaceObject.__init__(n, m, x, y, z, r); the radius is not read again.
G01SpaceObject(n, m, x, y, z) ==
    [name |-> n, mass |-> m,
     position |-> Vec(np_float32(x), np_float32(y), np_float32(z))]

\* distance as its name reads: the separation, not its square.
g01_distance_norm(so1, so2) ==
    np_float32(np_linalg_norm(np_subtract(so1.position, so2.position)))

\* distance(so1, so2), on float32 arrays: the square of the separation.
g01_distance(so1, so2) ==
    LET d == <<AddAt(Digits32, so1.position[1], FNeg(so2.position[1])),
               AddAt(Digits32, so1.position[2], FNeg(so2.position[2])),
               AddAt(Digits32, so1.position[3], FNeg(so2.position[3]))>>
    IN  AddAt(Digits32,
              AddAt(Digits32, MulAt(Digits32, d[1], d[1]), MulAt(Digits32, d[2], d[2])),
              MulAt(Digits32, d[3], d[3]))

\* grav_force(so1, so2); the quotient of a Python float and a numpy float32 is a
\* float64 or a float32 with the numpy installed: a format of fmt digits.
g01_grav_force(so1, so2, fmt) ==
    DivAt(fmt, FMul(FMul(grav_const, so1.mass), so2.mass), g01_distance(so1, so2))

\* The arguments of main's two SpaceObject(...) calls, and others.
G01Masses == {Lit(1, 6), Lit(19884, 26), Lit(5972, 21)}

G01Places ==
    {<<Lit(1496, 8), FZero, FZero>>, <<FZero, FZero, FZero>>,
     <<Lit(3, 3), Lit(4, 3), FZero>>}

G01Objects(n) ==
    {G01SpaceObject(n, m, p[1], p[2], p[3]) : m \in G01Masses, p \in G01Places}

G01Init ==
    /\ objs = <<>>
    /\ space_objects = <<>>
    /\ gf_space_objects = <<>>
    /\ a = <<>>
    /\ ev = {}
    /\ last = [op |-> "init", inst |-> 0, obj |-> 0]
    /\ steps = 0
    /\ g_spaceship \in G01Objects("Enterprise")
    /\ g_sun \in G01Objects("Sun")
    /\ g_fg = FZero
    /\ g_pc = "start"

\* main: distance(spaceship, sun); print(grav_force(spaceship, sun))
G01Main(fmt) ==
    /\ g_pc = "start"
    /\ g_fg' = g01_grav_force(g_spaceship, g_sun, fmt)
    /\ g_pc' = "done"
    /\ UNCHANGED <<g_spaceship, g_sun>>
    /\ UNCHANGED sim_vars

G01Next == \E fmt \in {Digits, Digits32} : G01Main(fmt)

SpecG01 == G01Init /\ [][G01Next]_vars

(***************************************************************************)
(* The claims                                                              *)
(***************************************************************************)
\* The steps of Spec, told apart by what they change.
UpdateStep == steps' = steps + 1

AddStep == Len(space_objects') = Len(space_objects) + 1

AccelStep == steps' = steps /\ Len(space_objects') = Len(space_objects)

\* The last operation was accel(), or an update(), which starts with accel().
AfterAccel == last.op \in {"accel", "update"}

\* The object at place k of the renderer's collection.
Body(k) == objs[space_objects[k]]

Places == 1..Len(space_objects)

\* How often object o is in the list.
Count(list, o) == Cardinality({k \in 1..Len(list) : list[k] = o})

RECURSIVE euler_times(_, _, _)
euler_times(so, ai, n) == IF n = 0 THEN so ELSE euler_times(euler_step(so, ai), ai, n - 1)

\* Two velocities that are numbers and differ in some coordinate.
RelativeVelocity(so1, so2) ==
    /\ VecFinite(so1.velocity)
    /\ VecFinite(so2.velocity)
    /\ so1.velocity # so2.velocity

\* C1: one update() is semi-implicit Euler for every body i of the collection: the
\* new velocity is v_i + a_i * delta_t and the new position is
\* p_i + (new velocity) * delta_t; a body at rest under a ends with velocity
\* a * delta_t and position p + a * delta_t * delta_t.
C1_SemiImplicitEuler ==
    [][UpdateStep =>
          \A k \in Places :
              LET o == space_objects[k]
                  v == np_add(objs[o].velocity, np_multiply(a'[k], delta_t))
              IN  /\ objs'[o].velocity = v
                  /\ objs'[o].position = np_add(objs[o].position, np_multiply(v, delta_t))
                  /\ objs[o].velocity = ZeroVec =>
                         /\ objs'[o].velocity = np_multiply(a'[k], delta_t)
                         /\ objs'[o].position =
                                np_add(objs[o].position,
                                       np_multiply(np_multiply(a'[k], delta_t), delta_t))
      ]_vars

\* C2: accel() changes no body, and update() applies to every body the
\* acceleration accel() computed from the positions and masses before the step:
\* each object ends where the loop body, run once per place it holds with the
\* pre-step acceleration of its first place, takes it from its pre-step state.
C2_AccelBeforeMutation ==
    [][/\ AccelStep => objs' = objs
       /\ UpdateStep =>
              LET pre == accel(objs, gf_space_objects).acc
              IN  /\ a' = pre
                  /\ \A k \in Places :
                         LET o == space_objects[k]
                         IN  objs'[o] = euler_times(objs[o], pre[index(space_objects, o)],
                                                    Count(space_objects, o))
      ]_vars

\* C2 witness: an update() has run on two different objects that attract each other.
C2_Witness ==
    /\ last.op = "update"
    /\ \E rec \in ev : gf_space_objects[rec.k] # gf_space_objects[rec.j]

C4_AccelFinite ==
    last.op = "accel" =>
        /\ \A rec \in ev :
               LET div == divisors(Body(rec.k), Body(rec.j))
               IN  div.norm # FZero /\ div.dsq # FZero
        /\ \A k \in 1..Len(a) : VecFinite(a[k])

\* C5: accel() evaluates no pair of a body with itself; with no body it returns
\* the empty list and with one body the zero vector, without a division.
C5_NoSelfForce ==
    AfterAccel =>
        /\ \A rec \in ev : gf_space_objects[rec.k] # gf_space_objects[rec.j]
        /\ Len(gf_space_objects) = 0 => a = <<>> /\ ev = {}
        /\ Len(gf_space_objects) = 1 => a = <<ZeroVec>> /\ ev = {}

\* C5 witness: accel() has run on a collection of one body.
C5_Witness == last.op = "accel" /\ Len(gf_space_objects) = 1 /\ a = <<ZeroVec>>

\* C6: every body of the collection has a mass > 0 (a body of mass <= 0 is
\* rejected when it is constructed or added).
C6_MassPositive ==
    \A k \in Places : FGt(Body(k).mass, FZero)

\* C7: an add() on one renderer leaves the collections of every other renderer,
\* and of its gravitational field, unchanged.
C7_InstanceOwned ==
    [][AddStep =>
          \A r \in Renderers \ {last'.inst} :
              /\ renderer_space_objects(r)' = renderer_space_objects(r)
              /\ field_space_objects(r)' = field_space_objects(r)
      ]_vars

\* Adding x to p moves p: x is not zero, and not below the last place of p.
Moves(p, x) ==
    /\ IsFinite(p) /\ IsFinite(x)
    /\ x.m # 0
    /\ p.m = 0 \/ Lead(x) >= Lead(p) - Digits + 1

\* Some body's velocity, times delta_t, moves its position in some coordinate.
SomeBodyMoves ==
    \E k \in Places, c \in 1..3 :
        Moves(Body(k).position[c], FMul(Body(k).velocity[c], delta_t))

\* Two bodies of the collection have a non-zero relative velocity.
SomeRelativeVelocity ==
    \E k, j \in Places : RelativeVelocity(Body(k), Body(j))

RefSpaceship == G01SpaceObject("Enterprise", Lit(1, 6), Lit(1496, 8), FZero, FZero)

RefSun == G01SpaceObject("Sun", Lit(19884, 26), FZero, FZero, FZero)

RefDone == g_pc = "done" /\ g_spaceship = RefSpaceship /\ g_sun = RefSun

\* x is within 5 % of y.
Approx(x, y) == FLe(FAbs(FSub(x, y)), FMul(Lit(5, -2), FAbs(y)))

\* C9 as claimed: in the reference scenario grav_force returns about 5.93e13 N.
C9_Force593e11 == RefDone => Approx(g_fg, Lit(593, 11))

\* C9 as amended: in the reference scenario grav_force returns about 5.93e3 N.
C9_Force593e1 == RefDone => Approx(g_fg, Lit(593, 1))

\* C9 witness: main has computed the force of the reference scenario.
C9_Witness == RefDone /\ IsFinite(g_fg)

\* C10: accel() adds what it accumulates for the entry at place k to the result
\* at place k, and update() advances the entry at each place k once, with the
\* result at place k.
C10_IndexIntegrity ==
    [][/\ last'.op \in {"accel", "update"} => \A rec \in ev' : rec.i = rec.k
       /\ UpdateStep =>
              \A k \in Places :
                  objs'[space_objects[k]] = euler_step(Body(k), a'[k])
      ]_vars
====
